---- MODULE Spec2Model ----
(***************************************************************************)
(* Floating-IP release workflow of galaxy's ipam API controller            *)
(* (pkg/ipam/api/api.go): request validation, the releasability gate,      *)
(* the dual-tier batch release and the response written to the caller.     *)
(* The binding stores behind floatingip.IPAM and the key codec of          *)
(* schedulerplugin/util are outside the files at hand; they are modelled   *)
(* from the specification's store contract.                                *)
(***************************************************************************)
EXTENDS Integers, Sequences, FiniteSets, TLC

VARIABLES
    ipam,        \* Controller.ipam: the primary binding store
    secondIpam,  \* Controller.secondIpam: the optional secondary store
    pods,        \* the pod lister's view: pod name -> phase, for live pods
    pc,          \* position of the ReleaseIPs handler: "idle" | "responded"
    last,        \* what the handler call in progress saw, did and answered
    history,     \* the operations logged so far (SpecStore, SpecE2E)
    galaxy       \* the daemon's Galaxy object: its quit channel and who holds it

vars == <<ipam, secondIpam, pods, pc, last, history, galaxy>>

\* ------------------------------------------------------------------ bounds

\* Longest ips list of a release request.
MaxItems == 2
\* Longest history of logged operations.
MaxOps == 3
\* ReleaseIPs attempts of one run of the step-wise handler.
MaxAttempts == 2
\* Rows of one listing that is sorted.
MaxRows == 2
\* Channels the Galaxy object makes in one run, the first included.
MaxChans == 4

\* ------------------------------------------------------------------ values

\* Dotted-quad address texts, as the sequence of their four fields.
IPs == {<<10, 0, 0, 1>>, <<10, 0, 0, 2>>}
\* A text net.ParseIP rejects.
BadIP == <<10, 0, 0, 256>>

Namespace == "default"
AppName == "web"
PodNames == {"web-1"}
Phases == {"Running"}

DeploymentPrefixKey == "dp_"
StatefulsetPrefixKey == "sts_"
TAppPrefixKey == "tapp_"

\* The empty key: a Free binding.
Free == <<>>

\* util.NewKeyObj(...).KeyInDB: the stored key as the tuple of its fields.
NewKeyObj(appTypePrefix, namespace, appName, podName, poolName) ==
    [KeyInDB |-> <<appTypePrefix, namespace, appName, podName, poolName>>]

\* The keys the allocator binds: a pod of the deployment, or the deployment
\* itself (an address kept for the app, with no pod name).
PodKey(p) == NewKeyObj(DeploymentPrefixKey, Namespace, AppName, p, "").KeyInDB
BoundKeys == {PodKey(p) : p \in PodNames \cup {""}}

\* Go maps as functions; the empty (or nil) map.
EmptyMap == << >>
MapPut(m, k, v) == [x \in DOMAIN m \cup {k} |-> IF x = k THEN v ELSE m[x]]
Restrict(m, S) == [x \in DOMAIN m \cap S |-> m[x]]
MapUnion(m1, m2) ==
    [x \in DOMAIN m1 \cup DOMAIN m2 |-> IF x \in DOMAIN m2 THEN m2[x] ELSE m1[x]]

\* Errors as the fragments of their message; nil is the empty message.
NoErr == << >>
ErrTableAbsent == <<"Error 1146:", "Table", "galaxy.second_fip", "doesn't exist">>
ErrConnRefused == <<"dial tcp:", "connection refused">>
ErrTableCrashed == <<"Error 145:", "Table", "second_fip", "is marked as crashed">>
IOErrors == {ErrConnRefused, ErrTableCrashed}

\* strings.Contains(err.Error(), s)
Contains(err, s) == \E i \in DOMAIN err : err[i] = s

StatusOK == 200
StatusAccepted == 202
StatusBadRequest == 400
StatusInternalServerError == 500

\* NewGalaxy(): quitChan is a channel just made, channel 0, and open. made
\* counts the channels made so far, closed holds the closed ones, components
\* the pairs of a started component and the channel it was handed, stops each
\* Stop caller's position, the channel it read and whether its call has run
\* with no other call in progress; panicked says that a close hit a closed
\* channel, panicAlone whether the call that did ran alone.
StopCallers == {1, 2}
NewGalaxy ==
    [quitChan |-> 0, made |-> 1, closed |-> {}, components |-> {},
     stops |-> [t \in StopCallers |-> [at |-> "idle", ch |-> 0, alone |-> TRUE]],
     panicked |-> FALSE, panicAlone |-> FALSE]

\* ------------------------------------------------------------------ stores

\* A store: nil (not configured) or a table of rows ip -> key; a store whose
\* table was never provisioned holds no row.
NilStore == [nil |-> TRUE, table |-> FALSE, rows |-> EmptyMap]
NoTable == [nil |-> FALSE, table |-> FALSE, rows |-> EmptyMap]
Table(rows) == [nil |-> FALSE, table |-> TRUE, rows |-> rows]

Bound(store, ip) == ip \in DOMAIN store.rows /\ store.rows[ip] # Free

\* A release that clears whatever key the address holds.
ReleaseOneAlways(rows, ip, expectedKey) ==
    IF ip \in DOMAIN rows
    THEN [released |-> TRUE, err |-> NoErr, rows |-> [rows EXCEPT ![ip] = Free]]
    ELSE [released |-> FALSE, err |-> NoErr, rows |-> rows]

\* A release that fails on an address that is already Free.
ReleaseOneFreeIsError(rows, ip, expectedKey) ==
    IF ip \in DOMAIN rows /\ rows[ip] = expectedKey
    THEN [released |-> TRUE, err |-> NoErr, rows |-> [rows EXCEPT ![ip] = Free]]
    ELSE [released |-> FALSE,
          err |-> IF ip \in DOMAIN rows /\ rows[ip] = Free
                  THEN <<"already", "released">> ELSE NoErr,
          rows |-> rows]

\* ReleaseOne: compare-and-clear of one binding.
ReleaseOne(rows, ip, expectedKey) ==
    IF ip \in DOMAIN rows /\ rows[ip] = expectedKey
    THEN [released |-> TRUE, err |-> NoErr, rows |-> [rows EXCEPT ![ip] = Free]]
    ELSE [released |-> FALSE, err |-> NoErr, rows |-> rows]

\* What a store call may run into: no error with every pair processed, or an
\* error after the pairs in done were processed.
NoFault(ipToKey) == [err |-> NoErr, done |-> DOMAIN ipToKey]
Faults(store, ipToKey) ==
    IF ~store.table
    THEN {[err |-> ErrTableAbsent, done |-> d] : d \in SUBSET DOMAIN ipToKey}
    ELSE {NoFault(ipToKey)}
         \cup {[err |-> e, done |-> d] : e \in IOErrors, d \in SUBSET DOMAIN ipToKey}

\* IPAM.ReleaseIPs: ReleaseOne on every pair it gets to; the pairs partition
\* into released and unreleased.
RECURSIVE ApplyReleases(_, _, _)
ApplyReleases(rows, ipToKey, todo) ==
    IF todo = {} THEN rows
    ELSE LET ip == CHOOSE x \in todo : TRUE
         IN  ApplyReleases(ReleaseOne(rows, ip, ipToKey[ip]).rows, ipToKey, todo \ {ip})

StoreReleaseIPs(store, ipToKey, fault) ==
    LET hit == {ip \in fault.done : ReleaseOne(store.rows, ip, ipToKey[ip]).released}
    IN  [released |-> Restrict(ipToKey, hit),
         unreleased |-> Restrict(ipToKey, fault.done \ hit),
         err |-> fault.err,
         store |-> [store EXCEPT !.rows = ApplyReleases(store.rows, ipToKey, fault.done)]]

\* An allocator that binds whatever the address holds.
AllocateOverwrite(store, other, ip, key) ==
    IF ip \in DOMAIN store.rows /\ ~Bound(other, ip)
    THEN [ok |-> TRUE, store |-> [store EXCEPT !.rows[ip] = key]]
    ELSE [ok |-> FALSE, store |-> store]

\* An allocator that does not look at the other tier.
AllocateOneTier(store, other, ip, key) ==
    IF ip \in DOMAIN store.rows /\ store.rows[ip] = Free
    THEN [ok |-> TRUE, store |-> [store EXCEPT !.rows[ip] = key]]
    ELSE [ok |-> FALSE, store |-> store]

\* The external allocator's compare-and-set: binds a Free address of one tier,
\* provided the other tier does not hold the address Bound.
Allocate(store, other, ip, key) ==
    IF ip \in DOMAIN store.rows /\ store.rows[ip] = Free /\ ~Bound(other, ip)
    THEN [ok |-> TRUE, store |-> [store EXCEPT !.rows[ip] = key]]
    ELSE [ok |-> FALSE, store |-> store]

\* ------------------------------------------------------------- the request

\* A FloatingIP record of a release request, with the fields the handler reads.
FloatingIP(ip, podName, isDeployment, appType) ==
    [IP |-> ip, Namespace |-> Namespace, AppName |-> AppName, PodName |-> podName,
     PoolName |-> "", IsDeployment |-> isDeployment, AppType |-> appType,
     Status |-> "", Releasable |-> FALSE]

\* (IsDeployment, AppType) as requests send them: the legacy flag, a known and
\* an unknown app type.
AppKinds == {<<TRUE, "">>, <<FALSE, "statefulset">>, <<FALSE, "bogus">>}

Items ==
    {FloatingIP(ip, p, k[1], k[2]) :
        ip \in IPs \cup {BadIP}, p \in PodNames \cup {""}, k \in AppKinds}

SeqsUpTo(S, n) == UNION {[1..k -> S] : k \in 0..n}

\* ReleaseIPReq as read by req.ReadEntity: a body that does not decode, or the
\* ips list.
Unreadable == [readable |-> FALSE, IPs |-> << >>]
Requests == {Unreadable} \cup {[readable |-> TRUE, IPs |-> s] : s \in SeqsUpTo(Items, MaxItems)}

\* net.ParseIP(text) # nil
ValidIP(text) == Len(text) = 4 /\ \A i \in 1..4 : text[i] \in 0..255

toAppTypePrefix(appType) ==
    CASE appType = "deployment" -> DeploymentPrefixKey
      [] appType \in {"statefulset", "statefulsets"} -> StatefulsetPrefixKey
      [] appType = "tapp" -> TAppPrefixKey
      [] OTHER -> ""

\* The validation loop of ReleaseIPs: the error of the first invalid item, or
\* the expectIPtoKey map.
RECURSIVE ParseItems(_, _, _)
ParseItems(ips, i, expectIPtoKey) ==
    IF i > Len(ips) THEN [err |-> "", expectIPtoKey |-> expectIPtoKey]
    ELSE LET temp == ips[i]
             appTypePrefix ==
                 IF temp.AppType = ""
                 THEN (IF temp.IsDeployment THEN DeploymentPrefixKey
                       ELSE StatefulsetPrefixKey)
                 ELSE toAppTypePrefix(temp.AppType)
             keyObj == NewKeyObj(appTypePrefix, temp.Namespace, temp.AppName,
                                 temp.PodName, temp.PoolName)
         IN  IF ~ValidIP(temp.IP)
             THEN [err |-> "is not a valid ip", expectIPtoKey |-> expectIPtoKey]
             ELSE IF appTypePrefix = ""
             THEN [err |-> "unknown app type", expectIPtoKey |-> expectIPtoKey]
             ELSE ParseItems(ips, i + 1, MapPut(expectIPtoKey, temp.IP, keyObj.KeyInDB))

\* What the lister holds for a name other than a pod's phase: a lookup that
\* fails with an error other than not-found, and a nil pod returned without error.
LookupErr == "lookup error"
NilPod == "nil pod"

\* lister.Pods(namespace).Get(name): the pod, or an error or a nil pod; found is
\* the negation of the test err != nil || pod == nil.
PodGet(lister, namespace, name) ==
    IF namespace = Namespace /\ name \in DOMAIN lister
       /\ lister[name] \notin {LookupErr, NilPod}
    THEN [found |-> TRUE, phase |-> lister[name]]
    ELSE [found |-> FALSE, phase |-> ""]

\* An evaluator that lets a live pod's address through.
FillOneNeverBlocks(lister, fip) ==
    IF fip.PodName = "" THEN [fip EXCEPT !.Releasable = TRUE]
    ELSE LET got == PodGet(lister, fip.Namespace, fip.PodName)
         IN  [fip EXCEPT !.Releasable = TRUE,
                         !.Status = IF got.found THEN got.phase ELSE "Deleted"]

\* An evaluator that writes no status for a pod it does not find.
FillOneKeepsStatus(lister, fip) ==
    IF fip.PodName = "" THEN [fip EXCEPT !.Releasable = TRUE]
    ELSE LET got == PodGet(lister, fip.Namespace, fip.PodName)
         IN  IF ~got.found
             THEN [fip EXCEPT !.Releasable = TRUE]
             ELSE [fip EXCEPT !.Releasable = FALSE, !.Status = got.phase]

\* One round of the loop of fillReleasableAndStatus.
FillOne(lister, fip) ==
    IF fip.PodName = "" THEN [fip EXCEPT !.Releasable = TRUE]
    ELSE LET got == PodGet(lister, fip.Namespace, fip.PodName)
         IN  IF ~got.found
             THEN [fip EXCEPT !.Releasable = TRUE, !.Status = "Deleted"]
             ELSE [fip EXCEPT !.Releasable = FALSE, !.Status = got.phase]

fillReleasableAndStatus(lister, ips) == [i \in DOMAIN ips |-> FillOne(lister, ips[i])]

\* The rounds of the loop that reach lister.Pods(...).Get: those of the items
\* with a pod name.
FillLookups(ips) == {i \in DOMAIN ips : ips[i].PodName # ""}

\* A gate that looks at the first item only.
GateRejectsFirstOnly(lister, ips) ==
    Len(ips) > 0 /\ ~fillReleasableAndStatus(lister, ips)[1].Releasable

\* The gate of ReleaseIPs: some item came back not releasable.
GateRejects(lister, ips) ==
    \E i \in DOMAIN ips : ~fillReleasableAndStatus(lister, ips)[i].Releasable

\* ------------------------------------------------------ batchReleaseIPs

\* An error test that looks for one of the two fragments only.
IsTableAbsentLoose(err) == Contains(err, "Table")

\* An error test that tolerates nothing.
IsTableAbsentNever(err) == FALSE

\* The error test of batchReleaseIPs: the secondary's table does not exist.
IsTableAbsent(err) == Contains(err, "Table") /\ Contains(err, "doesn't exist")

\* A batch release that retries the whole request against the secondary.
batchReleaseIPsRetryAll(ipToKey, primary, second, f1, f2) ==
    LET r1 == StoreReleaseIPs(primary, ipToKey, f1)
        call1 == [tier |-> 1, arg |-> ipToKey, released |-> r1.released,
                  unreleased |-> r1.unreleased, err |-> r1.err]
    IN  IF r1.err # NoErr \/ second.nil
        THEN [released |-> r1.released, unreleased |-> r1.unreleased, err |-> r1.err,
              ipam |-> r1.store, secondIpam |-> second, calls |-> <<call1>>]
        ELSE LET r2 == StoreReleaseIPs(second, ipToKey, NoFault(ipToKey))
                 call2 == [tier |-> 2, arg |-> ipToKey, released |-> r2.released,
                           unreleased |-> r2.unreleased, err |-> f2.err]
             IN  [released |-> MapUnion(r1.released, r2.released),
                  unreleased |-> r2.unreleased,
                  err |-> IF f2.err # NoErr /\ ~IsTableAbsent(f2.err)
                          THEN f2.err ELSE NoErr,
                  ipam |-> r1.store, secondIpam |-> r2.store,
                  calls |-> <<call1, call2>>]

\* batchReleaseIPs(ipToKey, ipam, secondIpam), with what each store call runs
\* into: the maps and error returned, both stores afterwards, and the calls made.
\* The secondary's maps are merged and taken over before its error is looked at,
\* so they are the result on a tolerated error too.
batchReleaseIPs(ipToKey, primary, second, f1, f2) ==
    LET r1 == StoreReleaseIPs(primary, ipToKey, f1)
        call1 == [tier |-> 1, arg |-> ipToKey, released |-> r1.released,
                  unreleased |-> r1.unreleased, err |-> r1.err]
    IN  IF r1.err # NoErr
        THEN [released |-> r1.released, unreleased |-> r1.unreleased, err |-> r1.err,
              ipam |-> r1.store, secondIpam |-> second, calls |-> <<call1>>]
        ELSE IF second.nil
        THEN [released |-> r1.released, unreleased |-> r1.unreleased, err |-> NoErr,
              ipam |-> r1.store, secondIpam |-> second, calls |-> <<call1>>]
        ELSE LET r2 == StoreReleaseIPs(second, r1.unreleased, f2)
                 call2 == [tier |-> 2, arg |-> r1.unreleased, released |-> r2.released,
                           unreleased |-> r2.unreleased, err |-> r2.err]
             IN  [released |-> MapUnion(r1.released, r2.released),
                  unreleased |-> r2.unreleased,
                  err |-> IF r2.err # NoErr /\ ~IsTableAbsent(r2.err)
                          THEN r2.err ELSE NoErr,
                  ipam |-> r1.store, secondIpam |-> r2.store,
                  calls |-> <<call1, call2>>]

\* ------------------------------------------------------------- the handler

NoCall == [called |-> FALSE]

\* The record of one ReleaseIPs call: the request, the stores and pods it ran
\* against, the batch release it made (if any) and the response it wrote.
CallRecord(req, code, msg, unreleased, batched, b) ==
    [called |-> TRUE, req |-> req, pods |-> pods,
     pre |-> [ipam |-> ipam, secondIpam |-> secondIpam],
     code |-> code, msg |-> msg, unreleased |-> unreleased,
     batched |-> batched, batch |-> b]

NoBatch == [ipToKey |-> EmptyMap, released |-> EmptyMap, unreleased |-> EmptyMap,
            err |-> NoErr, calls |-> << >>]

\* The response of ReleaseIPs after the batch release.
RespCode(err, unreleasedIP) ==
    IF err # NoErr THEN StatusInternalServerError
    ELSE IF Cardinality(unreleasedIP) > 0 THEN StatusAccepted
    ELSE StatusOK

RespMsg(err, unreleasedIP) ==
    IF err # NoErr THEN "server error"
    ELSE IF Cardinality(unreleasedIP) > 0 THEN "unreleased"
    ELSE ""

Reject(req, msg) ==
    /\ last' = CallRecord(req, StatusBadRequest, msg, {}, FALSE, NoBatch)
    /\ pc' = "responded"
    /\ UNCHANGED <<ipam, secondIpam, pods>>

\* Controller.ReleaseIPs, up to the response it is about to write.
Handle(req) ==
    /\ pc = "idle"
    /\ IF ~req.readable THEN Reject(req, "read entity")
       ELSE LET parsed == ParseItems(req.IPs, 1, EmptyMap)
            IN  IF parsed.err # "" THEN Reject(req, parsed.err)
                ELSE IF GateRejects(pods, req.IPs) THEN Reject(req, "is not releasable")
                ELSE \E f1 \in Faults(ipam, parsed.expectIPtoKey) :
                       LET r1 == StoreReleaseIPs(ipam, parsed.expectIPtoKey, f1)
                       IN  \E f2 \in Faults(secondIpam, r1.unreleased) :
                             LET b == batchReleaseIPs(parsed.expectIPtoKey, ipam,
                                                      secondIpam, f1, f2)
                                 unreleasedIP == DOMAIN b.unreleased
                             IN  /\ ipam' = b.ipam
                                 /\ secondIpam' = b.secondIpam
                                 /\ last' = CallRecord(req, RespCode(b.err, unreleasedIP),
                                                       RespMsg(b.err, unreleasedIP),
                                                       unreleasedIP, TRUE,
                                                       [ipToKey |-> parsed.expectIPtoKey,
                                                        released |-> b.released,
                                                        unreleased |-> b.unreleased,
                                                        err |-> b.err, calls |-> b.calls])
                                 /\ pc' = "responded"
                                 /\ UNCHANGED pods

ReleaseIPs(req) == Handle(req) /\ UNCHANGED <<history, galaxy>>

\* resp.WriteHeaderAndEntity: the response leaves, the handler returns.
WriteHeaderAndEntity ==
    /\ pc = "responded"
    /\ pc' = "idle"
    /\ last' = NoCall
    /\ UNCHANGED <<ipam, secondIpam, pods, history, galaxy>>

\* ------------------------------------------------------- the environment

\* The allocator binds a Free address of the primary (tier 1) or secondary
\* (tier 2) store to a pod's key.
AllocatePrimary(ip, key) ==
    /\ pc = "idle"
    /\ Allocate(ipam, secondIpam, ip, key).ok
    /\ ipam' = Allocate(ipam, secondIpam, ip, key).store
    /\ UNCHANGED <<secondIpam, pods, pc, last, history, galaxy>>

AllocateSecondary(ip, key) ==
    /\ pc = "idle"
    /\ Allocate(secondIpam, ipam, ip, key).ok
    /\ secondIpam' = Allocate(secondIpam, ipam, ip, key).store
    /\ UNCHANGED <<ipam, pods, pc, last, history, galaxy>>

PodCreate(p, phase) ==
    /\ pc = "idle"
    /\ p \notin DOMAIN pods
    /\ pods' = MapPut(pods, p, phase)
    /\ UNCHANGED <<ipam, secondIpam, pc, last, history, galaxy>>

PodDelete(p) ==
    /\ pc = "idle"
    /\ p \in DOMAIN pods
    /\ pods' = Restrict(pods, DOMAIN pods \ {p})
    /\ UNCHANGED <<ipam, secondIpam, pc, last, history, galaxy>>

\* ------------------------------------------------------- specification

FreeRows(D) == [ip \in D |-> Free]

Init ==
    /\ \E D \in SUBSET IPs : ipam = Table(FreeRows(D))
    /\ secondIpam \in {NilStore, NoTable, Table(FreeRows(IPs))}
    /\ pods = EmptyMap
    /\ pc = "idle"
    /\ last = NoCall
    /\ history = << >>
    /\ galaxy = NewGalaxy

Next ==
    \/ \E req \in Requests : ReleaseIPs(req)
    \/ WriteHeaderAndEntity
    \/ \E ip \in IPs, key \in BoundKeys : AllocatePrimary(ip, key)
    \/ \E ip \in IPs, key \in BoundKeys : AllocateSecondary(ip, key)
    \/ \E p \in PodNames, phase \in Phases : PodCreate(p, phase)
    \/ \E p \in PodNames : PodDelete(p)

Spec == Init /\ [][Next]_vars

\* ------------------------------------------- store-level operations

Tier(t) == IF t = 1 THEN ipam ELSE secondIpam
Snapshot == <<ipam, secondIpam>>

\* One allocator call on tier t, logged with the stores before and after.
AllocateOp(t, ip, key) ==
    /\ pc = "idle" /\ Len(history) < MaxOps
    /\ ~Tier(t).nil
    /\ LET r == Allocate(Tier(t), Tier(3 - t), ip, key)
           after == IF t = 1 THEN <<r.store, secondIpam>> ELSE <<ipam, r.store>>
       IN  /\ ipam' = after[1]
           /\ secondIpam' = after[2]
           /\ history' = Append(history,
                  [op |-> "allocate", tier |-> t, ip |-> ip, key |-> key, ok |-> r.ok,
                   err |-> NoErr, pre |-> Snapshot, post |-> after])
    /\ UNCHANGED <<pods, pc, last, galaxy>>

\* One ReleaseOne call on tier t, logged with the stores before and after.
ReleaseOneOp(t, ip, key) ==
    /\ pc = "idle" /\ Len(history) < MaxOps
    /\ ~Tier(t).nil
    /\ LET r == ReleaseOne(Tier(t).rows, ip, key)
           store == [Tier(t) EXCEPT !.rows = r.rows]
           after == IF t = 1 THEN <<store, secondIpam>> ELSE <<ipam, store>>
       IN  /\ ipam' = after[1]
           /\ secondIpam' = after[2]
           /\ history' = Append(history,
                  [op |-> "release", tier |-> t, ip |-> ip, key |-> key,
                   ok |-> r.released, err |-> r.err, pre |-> Snapshot, post |-> after])
    /\ UNCHANGED <<pods, pc, last, galaxy>>

InitStore ==
    /\ \E D \in SUBSET IPs : ipam = Table(FreeRows(D))
    /\ secondIpam \in {NilStore, Table(FreeRows(IPs))}
    /\ pods = EmptyMap
    /\ pc = "idle"
    /\ last = NoCall
    /\ history = << >>
    /\ galaxy = NewGalaxy

NextStore ==
    \/ \E t \in 1..2, ip \in IPs, key \in BoundKeys : AllocateOp(t, ip, key)
    \/ \E t \in 1..2, ip \in IPs, key \in BoundKeys : ReleaseOneOp(t, ip, key)

SpecStore == InitStore /\ [][NextStore]_vars

\* --------------------------------------------- the end-to-end sequence

\* A release request for one address of a pod of the deployment.
PodRequests ==
    {[readable |-> TRUE, IPs |-> <<FloatingIP(ip, p, TRUE, "")>>] :
        ip \in IPs, p \in PodNames}

\* The response leaves; the call is logged with the stores around it.
WriteLogged ==
    /\ pc = "responded"
    /\ pc' = "idle"
    /\ last' = NoCall
    /\ history' = Append(history,
           [op |-> "release", req |-> last.req, pods |-> last.pods,
            code |-> last.code, msg |-> last.msg,
            errs |-> [i \in DOMAIN last.batch.calls |-> last.batch.calls[i].err],
            pre |-> <<last.pre.ipam, last.pre.secondIpam>>, post |-> Snapshot])
    /\ UNCHANGED <<ipam, secondIpam, pods, galaxy>>

PodDeleteLogged(p) ==
    /\ pc = "idle" /\ Len(history) < MaxOps
    /\ p \in DOMAIN pods
    /\ pods' = Restrict(pods, DOMAIN pods \ {p})
    /\ history' = Append(history, [op |-> "podDelete", pod |-> p])
    /\ UNCHANGED <<ipam, secondIpam, pc, last, galaxy>>

InitE2E ==
    /\ \E rows \in [IPs -> {Free} \cup {PodKey(p) : p \in PodNames}] : ipam = Table(rows)
    /\ secondIpam \in {NilStore, NoTable}
    /\ \E live \in SUBSET PodNames : pods \in [live -> Phases]
    /\ pc = "idle"
    /\ last = NoCall
    /\ history = << >>
    /\ galaxy = NewGalaxy

NextE2E ==
    \/ \E req \in PodRequests : Len(history) < MaxOps /\ ReleaseIPs(req)
    \/ WriteLogged
    \/ \E p \in PodNames : PodDeleteLogged(p)

SpecE2E == InitE2E /\ [][NextE2E]_vars

\* ------------------------------------------------- the release workflow

\* The handler has answered a readable request.
Answered == pc = "responded" /\ last.called /\ last.req.readable

\* The stores are as the call found them.
StoresUntouched == ipam = last.pre.ipam /\ secondIpam = last.pre.secondIpam

\* An item whose pod the lister finds: not releasable.
LivePodItem(fip, lister) == fip.PodName # "" /\ fip.PodName \in DOMAIN lister

HasLivePodItem ==
    \E i \in DOMAIN last.req.IPs : LivePodItem(last.req.IPs[i], last.pods)

KnownAppTypes == {"deployment", "statefulset", "statefulsets", "tapp"}

ValidItem(fip) ==
    /\ fip.IP \in IPs
    /\ fip.AppType = "" \/ fip.AppType \in KnownAppTypes

AllItemsValid == \A i \in DOMAIN last.req.IPs : ValidItem(last.req.IPs[i])

NotReleasable == last.code = StatusBadRequest /\ last.msg = "is not releasable"

\* The store holds ip bound to key.
Holds(store, ip, key) == ip \in DOMAIN store.rows /\ store.rows[ip] = key

\* C1 as stated: every request with a non-releasable item (its pod is alive)
\* is answered NotReleasable and modifies no binding of either store.
C1_AnyRequestNotReleasable ==
    Answered /\ HasLivePodItem => NotReleasable /\ StoresUntouched

\* C1, amended: a request with a non-releasable item is rejected as a bad
\* request and modifies no binding of either store, the releasable items'
\* bindings included; the rejection is NotReleasable when every item of the
\* request passes validation, which runs first.
C1_GateRejectsWholesale ==
    Answered /\ HasLivePodItem =>
        /\ last.code = StatusBadRequest
        /\ ~last.batched
        /\ StoresUntouched
        /\ AllItemsValid => NotReleasable

\* A request naming a live pod's address and another, releasable address whose
\* binding matches was rejected.
C1_Witness ==
    /\ Answered /\ HasLivePodItem /\ AllItemsValid /\ NotReleasable
    /\ \E i \in DOMAIN last.req.IPs :
          LET fip == last.req.IPs[i]
          IN  /\ ~LivePodItem(fip, last.pods)
              /\ fip.IsDeployment
              /\ Holds(ipam, fip.IP, PodKey(fip.PodName))

\* The batch release ran and no store call failed.
BatchedNoError ==
    /\ Answered /\ last.batched
    /\ \A i \in DOMAIN last.batch.calls : last.batch.calls[i].err = NoErr

\* C2: with no store error the primary is called first with the request map;
\* a configured secondary is called with exactly the primary's unreleased map;
\* released is the union of both tiers' released maps and unreleased is the
\* secondary's leftover; without a secondary the primary's result is returned.
C2_DualTierMerge ==
    BatchedNoError =>
        LET b == last.batch
            c == b.calls
        IN  /\ Len(c) >= 1 /\ c[1].tier = 1 /\ c[1].arg = b.ipToKey
            /\ b.err = NoErr
            /\ IF last.pre.secondIpam.nil
               THEN /\ Len(c) = 1
                    /\ b.released = c[1].released
                    /\ b.unreleased = c[1].unreleased
               ELSE /\ Len(c) = 2 /\ c[2].tier = 2
                    /\ c[2].arg = c[1].unreleased
                    /\ DOMAIN c[2].arg \cap DOMAIN c[1].released = {}
                    /\ DOMAIN b.released = DOMAIN c[1].released \cup DOMAIN c[2].released
                    /\ \A ip \in DOMAIN b.released : b.released[ip] = b.ipToKey[ip]
                    /\ b.unreleased = c[2].unreleased
            /\ \A ip \in DOMAIN b.ipToKey :
                  ip \in DOMAIN b.released <=>
                      \/ Holds(last.pre.ipam, ip, b.ipToKey[ip])
                      \/ Holds(last.pre.secondIpam, ip, b.ipToKey[ip])

\* The primary lacks an address the secondary holds bound to the requested
\* key, and the batch reports it released.
C2_Witness ==
    /\ BatchedNoError
    /\ \E ip \in DOMAIN last.batch.ipToKey :
          /\ ip \notin DOMAIN last.pre.ipam.rows
          /\ Holds(last.pre.secondIpam, ip, last.batch.ipToKey[ip])
          /\ ip \in DOMAIN last.batch.released
          /\ secondIpam.rows[ip] = Free
    /\ last.code = StatusOK

\* The secondary was called and reported that its table does not exist.
SecondaryAbsent ==
    /\ Answered /\ last.batched
    /\ Len(last.batch.calls) = 2
    /\ last.batch.calls[2].err = ErrTableAbsent

\* C3: when the secondary reports its table absent, no error is returned and
\* the primary's released and unreleased maps are the result.
C3_TableAbsentPrimaryStands ==
    SecondaryAbsent =>
        /\ last.batch.err = NoErr
        /\ last.batch.released = last.batch.calls[1].released
        /\ last.batch.unreleased = last.batch.calls[1].unreleased

\* C4: the batch release returns an error exactly when the primary fails, or
\* the secondary fails with anything but the absent table; a failing primary
\* keeps the secondary from being called and its partial maps are returned.
C4_ErrorPropagation ==
    Answered /\ last.batched =>
        LET b == last.batch
            c == b.calls
        IN  /\ b.err # NoErr <=>
                  \/ c[1].err # NoErr
                  \/ Len(c) = 2 /\ c[2].err # NoErr /\ c[2].err # ErrTableAbsent
            /\ c[1].err # NoErr =>
                  /\ Len(c) = 1
                  /\ secondIpam = last.pre.secondIpam
                  /\ b.err = c[1].err
                  /\ b.released = c[1].released
                  /\ b.unreleased = c[1].unreleased
            /\ Len(c) = 2 /\ b.err # NoErr => b.err = c[2].err

\* The secondary failed with an error that names a table but not its absence,
\* and the batch release returned that error.
C4_Witness ==
    /\ Answered /\ last.batched
    /\ Len(last.batch.calls) = 2
    /\ last.batch.calls[2].err = ErrTableCrashed
    /\ last.batch.err = ErrTableCrashed
    /\ last.code = StatusInternalServerError

\* C10: past validation and the gate the status follows the batch result: 500
\* exactly on an error, 202 exactly when there is no error and the unreleased
\* map is not empty, 200 exactly when there is no error and every requested
\* address was released; the unreleased list is the unreleased map's addresses.
C10_StatusFollowsBatch ==
    Answered /\ last.batched =>
        LET b == last.batch
        IN  /\ last.code = StatusInternalServerError <=> b.err # NoErr
            /\ last.code = StatusAccepted <=>
                  b.err = NoErr /\ DOMAIN b.unreleased # {}
            /\ last.code = StatusOK <=>
                  b.err = NoErr /\ DOMAIN b.ipToKey \subseteq DOMAIN b.released
            /\ last.unreleased = DOMAIN b.unreleased

\* ------------------------------------------------- the store contract

Releases == {i \in DOMAIN history : history[i].op = "release"}
Allocations == {i \in DOMAIN history : history[i].op = "allocate"}

\* The rows of the tier an operation ran on, before and after it.
RowsBefore(e) == e.pre[e.tier].rows
RowsAfter(e) == e.post[e.tier].rows

\* The operation left every binding but that of its own address as it was.
OthersKept(e) ==
    /\ e.post[3 - e.tier] = e.pre[3 - e.tier]
    /\ DOMAIN RowsAfter(e) = DOMAIN RowsBefore(e)
    /\ \A ip \in DOMAIN RowsBefore(e) \ {e.ip} : RowsAfter(e)[ip] = RowsBefore(e)[ip]

SameTarget(e, f) == e.tier = f.tier /\ e.ip = f.ip

\* C5: ReleaseOne(ip, expectedKey) reports released exactly when the binding's
\* key equals expectedKey, and then the binding is Free; on another key or a
\* missing address it reports false with no error and changes nothing; no
\* other binding changes in either case.
C5_ReleaseOneCompareAndClear ==
    \A i \in Releases :
        LET e == history[i]
        IN  /\ e.ok <=> (e.ip \in DOMAIN RowsBefore(e) /\ RowsBefore(e)[e.ip] = e.key)
            /\ e.ok => RowsAfter(e)[e.ip] = Free
            /\ ~e.ok => e.err = NoErr /\ e.post = e.pre
            /\ OthersKept(e)

\* One release cleared its binding and another, against an address bound to a
\* different key, was refused.
C5_Witness ==
    /\ \E i \in Releases : history[i].ok
    /\ \E i \in Releases :
          LET e == history[i]
          IN  /\ ~e.ok
              /\ e.ip \in DOMAIN RowsBefore(e)
              /\ RowsBefore(e)[e.ip] \notin {Free, e.key}

ReleasedTwice(i) ==
    /\ i \in Releases /\ i + 1 \in Releases
    /\ SameTarget(history[i], history[i + 1])
    /\ history[i + 1].key = history[i].key
    /\ history[i + 1].pre = history[i].post
    /\ Holds(history[i].pre[history[i].tier], history[i].ip, history[i].key)

\* C8: ReleaseOne(ip, key) twice in sequence on an address bound to key reports
\* released, then not released with no error, and the second call leaves the
\* stores as the first left them.
C8_ReleaseIdempotent ==
    \A i \in DOMAIN history :
        ReleasedTwice(i) =>
            /\ history[i].ok
            /\ ~history[i + 1].ok
            /\ history[i + 1].err = NoErr
            /\ history[i + 1].post = history[i].post

C8_Witness == \E i \in DOMAIN history : ReleasedTwice(i)

\* ------------------------------------------------- the end-to-end sequence

\* A logged release call whose request names address ip of pod p, found bound
\* to that pod's key in the primary store.
ReleaseOf(e, ip, p) ==
    /\ e.op = "release"
    /\ e.req = [readable |-> TRUE, IPs |-> <<FloatingIP(ip, p, TRUE, "")>>]
    /\ Holds(e.pre[1], ip, PodKey(p))

StoreFailed(e) == \E i \in DOMAIN e.errs : e.errs[i] \in IOErrors

\* The release of ip was rejected while pod p was alive, p was then deleted,
\* and the same request was made again.
RejectedThenRetried(i, ip, p) ==
    /\ i + 2 \in DOMAIN history
    /\ ReleaseOf(history[i], ip, p) /\ p \in DOMAIN history[i].pods
    /\ history[i + 1] = [op |-> "podDelete", pod |-> p]
    /\ history[i + 2].op = "release" /\ history[i + 2].req = history[i].req

\* C9: a release of a bound address is rejected NotReleasable while its pod is
\* alive, and the address stays Bound; once the pod is deleted the same request
\* succeeds (no store failing) and the address is Free; every other address is
\* as it was throughout.
C9_RejectedThenReleased ==
    \A i \in DOMAIN history, ip \in IPs, p \in PodNames :
        /\ ReleaseOf(history[i], ip, p) /\ p \in DOMAIN history[i].pods =>
              /\ history[i].code = StatusBadRequest
              /\ history[i].msg = "is not releasable"
              /\ history[i].post = history[i].pre
        /\ RejectedThenRetried(i, ip, p) /\ ~StoreFailed(history[i + 2]) =>
              /\ history[i + 2].code = StatusOK
              /\ history[i + 2].post[1].rows[ip] = Free
              /\ \A other \in IPs \ {ip} :
                    history[i + 2].post[1].rows[other] = history[i].pre[1].rows[other]
              /\ history[i + 2].post[2] = history[i].pre[2]

\* The sequence has run: rejected, pod deleted, released, with the other
\* address Free throughout.
C9_Witness ==
    \E i \in DOMAIN history, ip \in IPs, p \in PodNames :
        /\ RejectedThenRetried(i, ip, p)
        /\ history[i + 2].code = StatusOK
        /\ \A other \in IPs \ {ip} : history[i].pre[1].rows[other] = Free
        /\ ipam.rows[ip] = Free

\* ------------------------------------------- the release policy evaluator

\* Pods the evaluator is asked about, their phases, and what the lister may
\* hold for a name.
FillPodNames == {"web-1", "web-2"}
FillPhases == {"Pending", "Running"}
FillNamespaces == {Namespace, "other"}

\* Items as they reach the evaluator: with or without a pod name, in the
\* lister's namespace or another, with the status field empty or already set.
FillItems ==
    {[FloatingIP(<<10, 0, 0, 1>>, p, TRUE, "") EXCEPT !.Namespace = ns, !.Status = st] :
        p \in FillPodNames \cup {""}, ns \in FillNamespaces, st \in {"", "Stale"}}

\* One call of fillReleasableAndStatus(lister, ips), recorded with its result;
\* the function returns nil on every path.
FillCall(ips) ==
    /\ pc = "idle"
    /\ last' = [called |-> TRUE, ips |-> ips, lister |-> pods,
                out |-> fillReleasableAndStatus(pods, ips),
                lookups |-> FillLookups(ips), err |-> NoErr]
    /\ pc' = "responded"
    /\ UNCHANGED <<ipam, secondIpam, pods, history, galaxy>>

InitFill ==
    /\ ipam = Table(EmptyMap)
    /\ secondIpam = NilStore
    /\ \E known \in SUBSET FillPodNames :
          pods \in [known -> FillPhases \cup {LookupErr, NilPod}]
    /\ pc = "idle"
    /\ last = NoCall
    /\ history = << >>
    /\ galaxy = NewGalaxy

NextFill ==
    \/ \E ips \in SeqsUpTo(FillItems, MaxItems) : FillCall(ips)
    \/ WriteHeaderAndEntity

SpecFill == InitFill /\ [][NextFill]_vars

\* The lister returns a pod for the item: the lookup succeeds and the pod is
\* not nil.
PodOf(lister, fip) ==
    /\ fip.Namespace = Namespace
    /\ fip.PodName \in DOMAIN lister
    /\ lister[fip.PodName] \in FillPhases

\* C11: the evaluator marks an item not releasable exactly when its pod name
\* is non-empty and the lookup returns a pod, and then the status is the pod's
\* phase; when the pod is not found or the lookup fails the status is "Deleted"
\* and the item is releasable; an item with an empty pod name is releasable
\* with no lookup made and its status left as it was; nothing else of an item
\* changes and the evaluator returns no error.
C11_EvaluatorMarks ==
    (pc = "responded" /\ last.called) =>
        /\ last.err = NoErr
        /\ DOMAIN last.out = DOMAIN last.ips
        /\ \A i \in DOMAIN last.ips :
             LET in == last.ips[i]
                 out == last.out[i]
             IN  /\ out.Releasable <=> ~(in.PodName # "" /\ PodOf(last.lister, in))
                 /\ (in.PodName # "" /\ PodOf(last.lister, in)) =>
                        out.Status = last.lister[in.PodName]
                 /\ (in.PodName # "" /\ ~PodOf(last.lister, in)) =>
                        out.Status = "Deleted"
                 /\ in.PodName = "" =>
                        (i \notin last.lookups /\ out.Status = in.Status)
                 /\ out = [in EXCEPT !.Releasable = out.Releasable,
                                     !.Status = out.Status]

\* One call met a live pod, which it blocked, and a failing lookup, which it
\* marked Deleted and releasable.
C11_Witness ==
    /\ pc = "responded" /\ last.called /\ Len(last.ips) = 2
    /\ \E i, j \in DOMAIN last.ips :
         /\ PodOf(last.lister, last.ips[i]) /\ ~last.out[i].Releasable
         /\ last.ips[j].PodName \in DOMAIN last.lister
         /\ last.lister[last.ips[j].PodName] = LookupErr
         /\ last.out[j].Status = "Deleted" /\ last.out[j].Releasable

\* ------------------------------------------------------------------- text

\* The bytes of the strings the model compares or searches, as Go compares
\* and searches strings.
Bytes(s) ==
    CASE s = "" -> << >>
      [] s = "default" -> <<100, 101, 102, 97, 117, 108, 116>>
      [] s = "other" -> <<111, 116, 104, 101, 114>>
      [] s = "web" -> <<119, 101, 98>>
      [] s = "web-1" -> <<119, 101, 98, 45, 49>>
      [] s = "web-2" -> <<119, 101, 98, 45, 50>>
      [] s = "dp_" -> <<100, 112, 95>>
      [] s = "sts_" -> <<115, 116, 115, 95>>
      [] s = "tapp_" -> <<116, 97, 112, 112, 95>>

\* a < b on strings: the first differing byte decides, a proper prefix is less.
StringLess(a, b) ==
    \E k \in 1..Len(b) :
        /\ \A j \in 1..(k - 1) : j <= Len(a) /\ a[j] = b[j]
        /\ (k > Len(a) \/ a[k] < b[k])

IsPrefix(p, s) == Len(p) <= Len(s) /\ \A j \in 1..Len(p) : s[j] = p[j]

IsSubstring(k, s) ==
    \E i \in 0..(Len(s) - Len(k)) : \A j \in 1..Len(k) : s[i + j] = k[j]

\* The address as the store keeps it, a 32-bit integer, and back.
IPValue(ip) == ((ip[1] * 256 + ip[2]) * 256 + ip[3]) * 256 + ip[4]
IntToIP(n) == <<n \div 16777216, (n \div 65536) % 256, (n \div 256) % 256, n % 256>>

\* The decimal digits of an octet, and net.IP.String(): dotted decimal text.
Digits(n) ==
    IF n < 10 THEN <<48 + n>>
    ELSE IF n < 100 THEN <<48 + (n \div 10), 48 + (n % 10)>>
    ELSE <<48 + (n \div 100), 48 + ((n \div 10) % 10), 48 + (n % 10)>>

IPString(ip) ==
    Digits(ip[1]) \o <<46>> \o Digits(ip[2]) \o <<46>> \o Digits(ip[3]) \o <<46>>
        \o Digits(ip[4])

\* ------------------------------------------------------------------ sorting

\* Sort tokens as callers send them, and strings.ToLower on them.
SortTokens ==
    {"", "ip", "ip asc", "ip desc", "IP DESC", "namespace", "namespace asc",
     "namespace desc", "podname", "PodName", "podname asc", "podname desc",
     "policy", "policy asc", "policy desc", "bogus"}

ToLower(s) ==
    CASE s = "IP DESC" -> "ip desc"
      [] s = "PodName" -> "podname"
      [] OTHER -> s

\* sortFunc(sort)(a, b, array), on the two records compared.
sortFunc(sort, a, b) ==
    LET t == ToLower(sort)
    IN  CASE t = "namespace asc" -> StringLess(Bytes(a.Namespace), Bytes(b.Namespace))
          [] t = "namespace desc" -> StringLess(Bytes(b.Namespace), Bytes(a.Namespace))
          [] t \in {"podname", "podname asc"} ->
                 StringLess(Bytes(a.PodName), Bytes(b.PodName))
          [] t = "podname desc" -> StringLess(Bytes(b.PodName), Bytes(a.PodName))
          [] t \in {"policy", "policy asc"} -> a.Policy < b.Policy
          [] t = "policy desc" -> a.Policy > b.Policy
          [] t = "ip desc" -> StringLess(b.IP, a.IP)
          [] OTHER -> StringLess(a.IP, b.IP)

Perms(n) == {p \in [1..n -> 1..n] : \A i, j \in 1..n : i # j => p[i] # p[j]}

Permute(array, p) == [i \in DOMAIN array |-> array[p[i]]]

\* sort.Sort(bySortParam{array, sortFunc(sort)}): an order in which no record
\* is less than one before it. sort.Sort does not promise to keep records that
\* compare equal in their order, so every such order is an outcome; p[i] is
\* the place in the array of the record that ends up at place i.
SortOutcomes(array, sort) ==
    {p \in Perms(Len(array)) :
        \A i, j \in DOMAIN array :
            i < j => ~sortFunc(sort, array[p[j]], array[p[i]])}

\* ------------------------------------------------------------------ listing

\* util.ParseKey(key): the fields of a stored key; a key without an app-type
\* marker decodes to no fields.
ParseKey(key) ==
    IF Len(key) = 5
       /\ key[1] \in {DeploymentPrefixKey, StatefulsetPrefixKey, TAppPrefixKey}
    THEN [ok |-> TRUE, AppTypePrefix |-> key[1], Namespace |-> key[2],
          AppName |-> key[3], PodName |-> key[4], PoolName |-> key[5],
          IsDeployment |-> key[1] = DeploymentPrefixKey]
    ELSE [ok |-> FALSE, AppTypePrefix |-> "", Namespace |-> "", AppName |-> "",
          PodName |-> "", PoolName |-> "", IsDeployment |-> FALSE]

\* An app type that maps a marker to no name.
toAppTypeNoTApp(appTypePrefix) ==
    CASE appTypePrefix = DeploymentPrefixKey -> "deployment"
      [] appTypePrefix = StatefulsetPrefixKey -> "statefulset"
      [] OTHER -> ""

toAppType(appTypePrefix) ==
    CASE appTypePrefix = DeploymentPrefixKey -> "deployment"
      [] appTypePrefix = StatefulsetPrefixKey -> "statefulset"
      [] appTypePrefix = TAppPrefixKey -> "tapp"
      [] OTHER -> ""

\* The key of a stateful set's pod, and the keys bindings are listed under.
StsKey == NewKeyObj(StatefulsetPrefixKey, Namespace, AppName, "web-1", "").KeyInDB
ListKeys == {PodKey("web-1"), StsKey}

\* The stored key starts with the prefix: the prefix's fields up to its last
\* non-empty one, which may be cut short.
HasPrefix(key, prefix) ==
    /\ Len(key) = 5
    /\ \E n \in 1..5 :
         /\ prefix[n] # "" /\ \A i \in (n + 1)..5 : prefix[i] = ""
         /\ \A i \in 1..(n - 1) : key[i] = prefix[i]
         /\ IsPrefix(Bytes(prefix[n]), Bytes(key[n]))

\* The stored key contains the keyword.
HasKeyword(key, keyword) ==
    /\ Len(key) = 5
    /\ \E i \in 1..5 : IsSubstring(Bytes(keyword), Bytes(key[i]))

\* The rows of a store in the order of their addresses, as database.FloatingIP.
SortedIPs(S) ==
    CHOOSE s \in [1..Cardinality(S) -> S] :
        \A i, j \in 1..Cardinality(S) : i < j => IPValue(s[i]) < IPValue(s[j])

RowsWhere(store, D) ==
    LET s == SortedIPs(D)
    IN  [i \in DOMAIN s |-> [Key |-> store.rows[s[i]], IP |-> IPValue(s[i]), Policy |-> 0]]

\* What a query of a store may run into: its table is absent, or the
\* connection fails.
QueryFaults(store) == IF ~store.table THEN {ErrTableAbsent} ELSE {NoErr, ErrConnRefused}

ByPrefix(store, prefix, fault) ==
    IF fault # NoErr THEN [fips |-> << >>, err |-> fault]
    ELSE [fips |-> RowsWhere(store, {ip \in DOMAIN store.rows :
                                         HasPrefix(store.rows[ip], prefix)}),
          err |-> NoErr]

ByKeyword(store, keyword, fault) ==
    IF fault # NoErr THEN [fips |-> << >>, err |-> fault]
    ELSE [fips |-> RowsWhere(store, {ip \in DOMAIN store.rows :
                                         HasKeyword(store.rows[ip], keyword)}),
          err |-> NoErr]

transform(fips) ==
    [i \in DOMAIN fips |->
        LET keyObj == ParseKey(fips[i].Key)
        IN  [IP |-> IPString(IntToIP(fips[i].IP)), Namespace |-> keyObj.Namespace,
             AppName |-> keyObj.AppName, PodName |-> keyObj.PodName,
             PoolName |-> keyObj.PoolName, IsDeployment |-> keyObj.IsDeployment,
             AppType |-> toAppType(keyObj.AppTypePrefix), Policy |-> fips[i].Policy,
             Status |-> "", Releasable |-> FALSE]]

\* A listing that leaves the secondary store out.
listIPsPrimaryOnly(keyword, primary, second, fuzzyQuery, f1, f2) ==
    LET q1 == IF fuzzyQuery THEN ByKeyword(primary, keyword, f1)
              ELSE ByPrefix(primary, keyword, f1)
        call1 == [tier |-> 1, fuzzyQuery |-> fuzzyQuery, key |-> keyword, err |-> q1.err]
    IN  [resp |-> transform(q1.fips), err |-> q1.err, queries |-> <<call1>>]

\* listIPs(keyword, ipam, secondIpam, fuzzyQuery), with what each query runs
\* into: the records and error returned, and the queries made.
listIPs(keyword, primary, second, fuzzyQuery, f1, f2) ==
    LET q1 == IF fuzzyQuery THEN ByKeyword(primary, keyword, f1)
              ELSE ByPrefix(primary, keyword, f1)
        call1 == [tier |-> 1, fuzzyQuery |-> fuzzyQuery, key |-> keyword, err |-> q1.err]
    IN  IF q1.err # NoErr
        THEN [resp |-> << >>, err |-> q1.err, queries |-> <<call1>>]
        ELSE IF second.nil
        THEN [resp |-> transform(q1.fips), err |-> NoErr, queries |-> <<call1>>]
        ELSE LET q2 == IF fuzzyQuery THEN ByKeyword(second, keyword, f2)
                       ELSE ByPrefix(second, keyword, f2)
                 call2 == [tier |-> 2, fuzzyQuery |-> fuzzyQuery, key |-> keyword,
                           err |-> q2.err]
             IN  IF q2.err # NoErr
                 THEN [resp |-> transform(q1.fips), err |-> q2.err,
                       queries |-> <<call1, call2>>]
                 ELSE [resp |-> transform(q1.fips) \o transform(q2.fips),
                       err |-> NoErr, queries |-> <<call1, call2>>]

\* strconv.ParseBool
ParseBool(s) ==
    [ok |-> s \in {"1", "t", "T", "TRUE", "true", "True",
                   "0", "f", "F", "FALSE", "false", "False"},
     value |-> s \in {"1", "t", "T", "TRUE", "true", "True"}]

\* A key derivation that takes an unknown app type for a stateful set.
ListKeyGuess(q) ==
    IF q.keyword # "" THEN [err |-> "", fuzzyQuery |-> TRUE, key |-> q.keyword]
    ELSE [err |-> "", fuzzyQuery |-> FALSE,
          key |-> NewKeyObj(IF toAppTypePrefix(q.appType) = ""
                            THEN StatefulsetPrefixKey ELSE toAppTypePrefix(q.appType),
                            q.namespace, q.appName, q.podName, q.poolName).KeyInDB]

\* The head of ListIPs: the key to query and how, or the error of a bad
\* request.
ListKey(q) ==
    IF q.keyword # "" THEN [err |-> "", fuzzyQuery |-> TRUE, key |-> q.keyword]
    ELSE LET isDep == ParseBool(q.isDeployment)
             appTypePrefix ==
                 IF q.appType = ""
                 THEN (IF q.isDeployment # "" /\ isDep.value THEN DeploymentPrefixKey
                       ELSE StatefulsetPrefixKey)
                 ELSE toAppTypePrefix(q.appType)
         IN  IF q.appType = "" /\ q.isDeployment # "" /\ ~isDep.ok
             THEN [err |-> "invalid isDeployment", fuzzyQuery |-> FALSE, key |-> << >>]
             ELSE IF appTypePrefix = ""
             THEN [err |-> "invalid appType", fuzzyQuery |-> FALSE, key |-> << >>]
             ELSE [err |-> "", fuzzyQuery |-> FALSE,
                   key |-> NewKeyObj(appTypePrefix, q.namespace, q.appName, q.podName,
                                     q.poolName).KeyInDB]

\* pageutil.PagingParams(req): the sort token, page and size of the request.
PagingParams(q) == [sortParam |-> q.sort, page |-> q.page, size |-> q.size]

Clamp(x, lo, hi) == IF x < lo THEN lo ELSE IF x > hi THEN hi ELSE x

\* pageutil.Pagination(page, size, total): the window of page number page, the
\* first page being page 1, clamped to [0, total].
Pagination(page, size, total) ==
    LET start == Clamp((page - 1) * size, 0, total)
    IN  [start |-> start, end |-> Clamp(page * size, start, total)]

\* A page cut out of the records as the stores returned them.
PageContentUnsorted(resp, p, page, size, lister) ==
    LET w == Pagination(page, size, Len(resp))
    IN  [start |-> w.start, end |-> w.end, sorted |-> resp,
         content |-> fillReleasableAndStatus(lister, SubSeq(resp, w.start + 1, w.end))]

\* The tail of ListIPs: the records sorted (p is the order sort.Sort left them
\* in), the window of the page, and the records of the page annotated.
PageContent(resp, p, page, size, lister) ==
    LET sorted == Permute(resp, p)
        w == Pagination(page, size, Len(sorted))
        pagedFips == SubSeq(sorted, w.start + 1, w.end)
    IN  [start |-> w.start, end |-> w.end, sorted |-> sorted,
         content |-> fillReleasableAndStatus(lister, pagedFips)]

NoList == [start |-> 0, end |-> 0, sorted |-> << >>, content |-> << >>]

\* The record of one ListIPs call: the query, the stores and pods it ran
\* against, the queries it made, what they returned and the response.
ListRecord(q, code, msg, queries, fips, l) ==
    [called |-> TRUE, q |-> q, pods |-> pods,
     pre |-> [ipam |-> ipam, secondIpam |-> secondIpam],
     code |-> code, msg |-> msg, queries |-> queries, fips |-> fips, list |-> l]

\* Controller.ListIPs, up to the response it is about to write.
ListIPs(q) ==
    /\ pc = "idle"
    /\ LET k == ListKey(q)
           paging == PagingParams(q)
       IN  IF k.err # ""
           THEN last' = ListRecord(q, StatusBadRequest, k.err, << >>, << >>, NoList)
           ELSE \E f1 \in QueryFaults(ipam), f2 \in QueryFaults(secondIpam) :
                  LET l == listIPs(k.key, ipam, secondIpam, k.fuzzyQuery, f1, f2)
                  IN  IF l.err # NoErr
                      THEN last' = ListRecord(q, StatusInternalServerError, "server error",
                                              l.queries, l.resp, NoList)
                      ELSE \E p \in SortOutcomes(l.resp, paging.sortParam) :
                             last' = ListRecord(q, StatusOK, "", l.queries, l.resp,
                                                PageContent(l.resp, p, paging.page,
                                                            paging.size, pods))
    /\ pc' = "responded"
    /\ UNCHANGED <<ipam, secondIpam, pods, history, galaxy>>

\* Queries as callers send them.
ListQueries ==
    {[keyword |-> k, appType |-> t, isDeployment |-> d, namespace |-> Namespace,
      appName |-> AppName, podName |-> pn, poolName |-> "", sort |-> s,
      page |-> pg, size |-> sz] :
        k \in {"", "web-1"}, t \in {"", "deployment", "bogus"},
        d \in {"", "true", "maybe"}, pn \in {"", "web-1"}, s \in {"", "ip desc"},
        pg \in 1..3, sz \in 1..2}

\* The stores hold bindings of a deployment's and a stateful set's pod; while
\* addresses migrate, both tiers may hold a row of the same address.
InitList ==
    /\ \E rows \in [IPs -> {Free} \cup ListKeys] : ipam = Table(rows)
    /\ \/ secondIpam \in {NilStore, NoTable}
       \/ \E rows \in [IPs -> {Free, PodKey("web-1")}] :
            rows[<<10, 0, 0, 1>>] # Free /\ secondIpam = Table(rows)
    /\ \E live \in SUBSET PodNames : pods \in [live -> Phases]
    /\ pc = "idle"
    /\ last = NoCall
    /\ history = << >>
    /\ galaxy = NewGalaxy

\* Release requests of a valid item, an item with a bad address and an item
\* with an unknown app type.
ListReleaseRequests ==
    {[readable |-> TRUE, IPs |-> s] :
        s \in SeqsUpTo({FloatingIP(<<10, 0, 0, 1>>, "web-1", TRUE, ""),
                        FloatingIP(BadIP, "web-1", TRUE, ""),
                        FloatingIP(<<10, 0, 0, 2>>, "web-1", FALSE, "bogus")}, MaxItems)}

NextList ==
    \/ \E q \in ListQueries : ListIPs(q)
    \/ \E req \in ListReleaseRequests : ReleaseIPs(req)
    \/ WriteHeaderAndEntity

SpecList == InitList /\ [][NextList]_vars

\* --------------------------------------------- validation before the stores

\* The call on record is a ReleaseIPs call, or a ListIPs call.
IsRelease == pc = "responded" /\ last.called /\ "req" \in DOMAIN last
IsList == pc = "responded" /\ last.called /\ "q" \in DOMAIN last

\* An app-type token that was sent and is not one of the known names.
UnknownAppType(appType) == appType # "" /\ appType \notin KnownAppTypes

\* ReleaseIPs rejects a request with an unparsable address or an unknown app
\* type before any store call.
ReleaseValidatedFirst ==
    (IsRelease /\ last.req.readable /\ ~AllItemsValid) =>
        /\ last.code = StatusBadRequest
        /\ ~last.batched /\ last.batch.calls = << >>
        /\ StoresUntouched

\* C12 as stated: validation precedes store access; a ReleaseIPs request with
\* an invalid item is rejected as a bad request with no store call and no
\* binding modified, and a ListIPs request with an unrecognized appType is
\* rejected with no query issued to either store.
C12_UnknownAppTypeNeverQueries ==
    /\ ReleaseValidatedFirst
    /\ (IsList /\ UnknownAppType(last.q.appType)) =>
          (last.code = StatusBadRequest /\ last.queries = << >> /\ StoresUntouched)

\* C12: validation precedes store access; a ReleaseIPs request with an invalid
\* item is rejected as a bad request with no store call and no binding
\* modified, and a ListIPs request without a keyword and with an unrecognized
\* appType is rejected with no query issued to either store; with a keyword
\* the appType is not read.
C12_ValidationPrecedesStores ==
    /\ ReleaseValidatedFirst
    /\ (IsList /\ last.q.keyword = "" /\ UnknownAppType(last.q.appType)) =>
          (last.code = StatusBadRequest /\ last.queries = << >> /\ StoresUntouched)
    /\ (IsList /\ last.q.keyword # "") =>
          (last.code # StatusBadRequest /\ Len(last.queries) >= 1
           /\ last.queries[1].fuzzyQuery)

\* A ListIPs request without a keyword and with an unknown appType was
\* rejected while the primary held a binding the rest of its filter matches.
C12_Witness ==
    /\ IsList /\ last.q.keyword = "" /\ last.q.appType = "bogus"
    /\ last.code = StatusBadRequest /\ last.queries = << >>
    /\ \E ip \in IPs : Holds(ipam, ip, StsKey)

\* ------------------------------------------------ the handler step by step

\* Release requests for the addresses of one pod of the deployment.
StepRequests ==
    {[readable |-> TRUE, IPs |-> s] :
        s \in {<<FloatingIP(<<10, 0, 0, 1>>, "web-1", TRUE, "")>>,
               <<FloatingIP(<<10, 0, 0, 2>>, "web-1", TRUE, "")>>,
               <<FloatingIP(<<10, 0, 0, 1>>, "web-1", TRUE, ""),
                 FloatingIP(<<10, 0, 0, 2>>, "web-1", TRUE, "")>>}}

\* ReleaseIPs up to the gate: a rejection, or the handler goes on to the
\* primary store with the map it built.
Begin(req) ==
    /\ pc = "idle" /\ Len(history) < MaxAttempts
    /\ LET parsed == ParseItems(req.IPs, 1, EmptyMap)
       IN  IF parsed.err # "" THEN Reject(req, parsed.err)
           ELSE IF GateRejects(pods, req.IPs) THEN Reject(req, "is not releasable")
           ELSE /\ last' = [called |-> TRUE, req |-> req, pods |-> pods,
                            pre |-> [ipam |-> ipam, secondIpam |-> secondIpam],
                            ipToKey |-> parsed.expectIPtoKey,
                            f1 |-> NoFault(parsed.expectIPtoKey)]
                /\ pc' = "primary"
                /\ UNCHANGED <<ipam, secondIpam, pods>>
    /\ UNCHANGED <<history, galaxy>>

\* The record of a call that went through batchReleaseIPs.
Batched(b) ==
    [called |-> TRUE, req |-> last.req, pods |-> last.pods, pre |-> last.pre,
     code |-> RespCode(b.err, DOMAIN b.unreleased),
     msg |-> RespMsg(b.err, DOMAIN b.unreleased),
     unreleased |-> DOMAIN b.unreleased, batched |-> TRUE,
     batch |-> [ipToKey |-> last.ipToKey, released |-> b.released,
                unreleased |-> b.unreleased, err |-> b.err, calls |-> b.calls]]

\* batchReleaseIPs up to and including ipam.ReleaseIPs: the primary store is
\* written; on an error or without a secondary the handler has its result.
PrimaryRelease ==
    /\ pc = "primary"
    /\ \E f1 \in Faults(ipam, last.ipToKey) :
         LET b == batchReleaseIPs(last.ipToKey, ipam, secondIpam, f1, NoFault(EmptyMap))
         IN  /\ ipam' = b.ipam
             /\ IF Len(b.calls) = 1
                THEN last' = Batched(b) /\ pc' = "responded"
                ELSE last' = [last EXCEPT !.f1 = f1] /\ pc' = "secondary"
    /\ UNCHANGED <<secondIpam, pods, history, galaxy>>

\* The rest of batchReleaseIPs: secondIpam.ReleaseIPs on what the primary left
\* unreleased. Nothing else writes the stores while the handler runs, so the
\* primary's call is the one made on the store the handler found.
SecondaryRelease ==
    /\ pc = "secondary"
    /\ \E f2 \in Faults(secondIpam,
                        StoreReleaseIPs(last.pre.ipam, last.ipToKey, last.f1).unreleased) :
         LET b == batchReleaseIPs(last.ipToKey, last.pre.ipam, secondIpam, last.f1, f2)
         IN  /\ secondIpam' = b.secondIpam
             /\ last' = Batched(b)
             /\ pc' = "responded"
    /\ UNCHANGED <<ipam, pods, history, galaxy>>

\* The process dies between two steps of the handler: its locals are gone,
\* the stores stay as they are.
Crash ==
    /\ pc \in {"primary", "secondary"}
    /\ history' = Append(history,
           [op |-> "crash", at |-> pc, req |-> last.req, ipToKey |-> last.ipToKey,
            pre |-> <<last.pre.ipam, last.pre.secondIpam>>, post |-> Snapshot])
    /\ pc' = "idle"
    /\ last' = NoCall
    /\ UNCHANGED <<ipam, secondIpam, pods, galaxy>>

\* The response leaves; the call is logged with the stores around it.
Respond ==
    /\ pc = "responded"
    /\ history' = Append(history,
           [op |-> "release", req |-> last.req, code |-> last.code,
            batched |-> last.batched,
            errs |-> [i \in DOMAIN last.batch.calls |-> last.batch.calls[i].err],
            pre |-> <<last.pre.ipam, last.pre.secondIpam>>, post |-> Snapshot])
    /\ pc' = "idle"
    /\ last' = NoCall
    /\ UNCHANGED <<ipam, secondIpam, pods, galaxy>>

\* Pods come and go whatever the handler is doing.
PodCreated(p, phase) ==
    /\ p \notin DOMAIN pods
    /\ pods' = MapPut(pods, p, phase)
    /\ UNCHANGED <<ipam, secondIpam, pc, last, history, galaxy>>

PodDeleted(p) ==
    /\ p \in DOMAIN pods
    /\ pods' = Restrict(pods, DOMAIN pods \ {p})
    /\ UNCHANGED <<ipam, secondIpam, pc, last, history, galaxy>>

\* An address is Free, bound to the pod or bound to the deployment in the
\* primary, or bound to the pod in the secondary; never bound in both.
InitSteps ==
    /\ \E rows \in [IPs -> {Free} \cup BoundKeys] :
         /\ ipam = Table(rows)
         /\ \/ secondIpam \in {NilStore, NoTable}
            \/ \E rows2 \in [IPs -> {Free, PodKey("web-1")}] :
                 /\ \A ip \in IPs : rows[ip] = Free \/ rows2[ip] = Free
                 /\ secondIpam = Table(rows2)
    /\ \E live \in SUBSET PodNames : pods \in [live -> Phases]
    /\ pc = "idle"
    /\ last = NoCall
    /\ history = << >>
    /\ galaxy = NewGalaxy

NextSteps ==
    \/ \E req \in StepRequests : Begin(req)
    \/ PrimaryRelease
    \/ SecondaryRelease
    \/ Crash
    \/ Respond
    \/ \E p \in PodNames, phase \in Phases : PodCreated(p, phase)
    \/ \E p \in PodNames : PodDeleted(p)

SpecSteps == InitSteps /\ [][NextSteps]_vars

\* --------------------------------------------------- crash and re-attempt

\* history[i] is a crash between the primary release and the secondary retry,
\* history[i + 1] the same request issued again, let through by the gate and
\* run with no store failing.
CrashedThenReissued(i) ==
    /\ history[i].op = "crash" /\ history[i].at = "secondary"
    /\ history[i + 1].op = "release" /\ history[i + 1].req = history[i].req
    /\ history[i + 1].batched /\ ~StoreFailed(history[i + 1])

\* C13: re-issuing the same release request after a crash between the primary
\* release and the secondary retry converges: what the primary cleared stays
\* cleared, the re-attempt raises no error for addresses already Free, and
\* after it every requested address whose stored key was the requested key in
\* either tier is Free, while no binding owned by another key is cleared.
C13_ReissueConverges ==
    \A i \in 1..(Len(history) - 1) :
        CrashedThenReissued(i) =>
            LET c == history[i]
                r == history[i + 1]
            IN  /\ r.pre = c.post
                /\ r.code # StatusInternalServerError
                /\ \A ip \in DOMAIN c.pre[1].rows :
                     (c.pre[1].rows[ip] # Free /\ c.post[1].rows[ip] = Free) =>
                        r.post[1].rows[ip] = Free
                /\ \A t \in 1..2 : \A ip \in DOMAIN c.ipToKey :
                     Holds(c.pre[t], ip, c.ipToKey[ip]) => r.post[t].rows[ip] = Free
                /\ \A t \in 1..2 : \A ip \in DOMAIN c.pre[t].rows :
                     r.post[t].rows[ip] # c.pre[t].rows[ip] =>
                        /\ ip \in DOMAIN c.ipToKey
                        /\ c.pre[t].rows[ip] = c.ipToKey[ip]
                        /\ r.post[t].rows[ip] = Free

\* A crash came after the primary had cleared one requested address and
\* before the secondary, which held the other, was tried; the re-attempt
\* cleared that one, and a binding of another key was in the stores.
C13_Witness ==
    \E i \in 1..(Len(history) - 1) :
        /\ CrashedThenReissued(i)
        /\ \E ip \in DOMAIN history[i].ipToKey :
             /\ Holds(history[i].pre[1], ip, history[i].ipToKey[ip])
             /\ history[i].post[1].rows[ip] = Free
        /\ \E ip \in DOMAIN history[i].ipToKey :
             /\ Holds(history[i].post[2], ip, history[i].ipToKey[ip])
             /\ history[i + 1].post[2].rows[ip] = Free

\* ------------------------------------------------ release against live pods

\* C19: in every interleaving of ReleaseIPs requests with pod creation and
\* deletion, no step clears the binding of a pod that exists at that step.
C19_NoLivePodCleared ==
    [][\A p \in PodNames : \A ip \in IPs :
          ((Holds(ipam, ip, PodKey(p)) /\ ipam'.rows[ip] = Free)
           \/ (Holds(secondIpam, ip, PodKey(p)) /\ secondIpam'.rows[ip] = Free))
          => p \notin DOMAIN pods]_vars

\* ------------------------------------------------------ the list query

\* ListIPs got as far as its queries.
Queried == IsList /\ ListKey(last.q).err = ""

\* The addresses of a store whose binding the query of the call matches.
Matching(store) ==
    {ip \in DOMAIN store.rows :
        IF last.q.keyword # "" THEN HasKeyword(store.rows[ip], last.q.keyword)
        ELSE HasPrefix(store.rows[ip], ListKey(last.q).key)}

\* The record fips[i] presents the binding of ip in store.
Presents(rec, store, ip) ==
    /\ rec.IP = IPString(ip)
    /\ <<rec.Namespace, rec.AppName, rec.PodName, rec.PoolName>>
           = SubSeq(store.rows[ip], 2, 5)
    /\ toAppTypePrefix(rec.AppType) = store.rows[ip][1]

\* The records from place lo + 1 on present the matching bindings of the
\* store, one record each.
TierListed(fips, lo, store) ==
    LET D == Matching(store)
    IN  /\ \A ip \in D :
             \E i \in 1..Cardinality(D) : Presents(fips[lo + i], store, ip)
        /\ \A i \in 1..Cardinality(D) :
             \E ip \in D : Presents(fips[lo + i], store, ip)

\* C14: a list query, by prefix or by keyword, returns the primary's matching
\* bindings followed by the secondary's when a secondary is configured, and
\* only the primary's otherwise; an address held by both tiers yields two
\* records; the query modifies no binding.
C14_QueryFanOut ==
    (Queried /\ last.code = StatusOK) =>
        LET n1 == Cardinality(Matching(last.pre.ipam))
            n2 == IF last.pre.secondIpam.nil THEN 0
                  ELSE Cardinality(Matching(last.pre.secondIpam))
        IN  /\ Len(last.fips) = n1 + n2
            /\ TierListed(last.fips, 0, last.pre.ipam)
            /\ ~last.pre.secondIpam.nil => TierListed(last.fips, n1, last.pre.secondIpam)
            /\ Len(last.queries) = IF last.pre.secondIpam.nil THEN 1 ELSE 2
            /\ \A i \in DOMAIN last.queries :
                 /\ last.queries[i].tier = i
                 /\ last.queries[i].fuzzyQuery = (last.q.keyword # "")
            /\ StoresUntouched

\* A query matched an address bound in both tiers and returned a record for
\* each, the primary's first.
C14_Witness ==
    /\ Queried /\ last.code = StatusOK /\ ~last.pre.secondIpam.nil
    /\ \E ip \in Matching(last.pre.ipam) \cap Matching(last.pre.secondIpam) :
         /\ Len(last.fips) >= 3
         /\ Cardinality({i \in DOMAIN last.fips : last.fips[i].IP = IPString(ip)}) = 2

\* C15: when the secondary's query reports its table absent, the list query
\* does not fail: the error is suppressed, the secondary contributes nothing
\* and the listing is the primary's results.
C15_ListToleratesAbsentTable ==
    (Queried /\ ~last.pre.secondIpam.nil /\ ~last.pre.secondIpam.table
     /\ last.queries[1].err = NoErr) =>
        /\ last.code = StatusOK
        /\ Len(last.fips) = Cardinality(Matching(last.pre.ipam))
        /\ TierListed(last.fips, 0, last.pre.ipam)

\* --------------------------------------------------------------- paging

\* The places of a listing of n records that page number page of size size
\* holds.
Window(page, size, n) ==
    {i \in 1..n : Pagination(page, size, n).start < i
                  /\ i <= Pagination(page, size, n).end}

\* The record without what the evaluator wrote.
Bare(rec) == [rec EXCEPT !.Status = "", !.Releasable = FALSE]

\* C16: the sort is applied to the whole result before it is sliced; the
\* window satisfies 0 <= start <= end <= n; a page beyond the result count is
\* empty and no error; consecutive pages partition the sorted result, and of
\* 25 records in pages of 10 page 3 holds the last 5 and page 4 none.
C16_SortThenPage ==
    /\ (Queried /\ last.code = StatusOK) =>
          LET n == Len(last.fips)
              l == last.list
              page == last.q.page
              size == last.q.size
          IN  /\ 0 <= l.start /\ l.start <= l.end /\ l.end <= n
              /\ Len(l.sorted) = n
              /\ \E p \in Perms(n) : l.sorted = Permute(last.fips, p)
              /\ \A i, j \in 1..n :
                   i < j => ~sortFunc(last.q.sort, l.sorted[j], l.sorted[i])
              /\ Len(l.content) = l.end - l.start
              /\ \A i \in DOMAIN l.content : Bare(l.content[i]) = l.sorted[l.start + i]
              /\ {l.start + i : i \in DOMAIN l.content} = Window(page, size, n)
              /\ (page - 1) * size >= n => l.content = << >>
              /\ \A i \in 1..n :
                   Cardinality({pg \in 1..(n + 1) : i \in Window(pg, size, n)}) = 1
              /\ \A pg \in 1..n : \A i \in Window(pg, size, n) :
                   \A j \in Window(pg + 1, size, n) : i < j
    /\ Window(3, 10, 25) = 21..25
    /\ Window(4, 10, 25) = {}

\* Three records came back, were put in descending order of address, which is
\* not the order the stores gave them in, and page 2 of size 2 holds the last.
C16_Witness ==
    /\ Queried /\ last.code = StatusOK
    /\ Len(last.fips) = 3 /\ last.q.size = 2 /\ last.q.page = 2
    /\ last.q.sort = "ip desc" /\ last.list.sorted # last.fips
    /\ Len(last.list.content) = 1
    /\ Bare(last.list.content[1]) = last.list.sorted[3]

\* ------------------------------------------------------ sorting a listing

\* Rows as the stores return them: two addresses, the second the greater as
\* an integer and the lesser as text, pods of two namespaces, two policies.
SortIPs == {<<10, 0, 0, 2>>, <<10, 0, 0, 10>>}
SortPolicies == {0, 1}
SortRows ==
    {[Key |-> NewKeyObj(DeploymentPrefixKey, ns, AppName, pod, "").KeyInDB,
      IP |-> IPValue(ip), Policy |-> policy] :
        ip \in SortIPs, ns \in FillNamespaces, pod \in FillPodNames,
        policy \in SortPolicies}

\* The sort of ListIPs on the records of some rows, in fan-out order, under a
\* sort token: recorded with the order sort.Sort left them in.
SortCall(rows, sort) ==
    /\ pc = "idle"
    /\ \E p \in SortOutcomes(transform(rows), sort) :
         last' = [called |-> TRUE, rows |-> rows, array |-> transform(rows),
                  sort |-> sort, perm |-> p, out |-> Permute(transform(rows), p)]
    /\ pc' = "responded"
    /\ UNCHANGED <<ipam, secondIpam, pods, history, galaxy>>

InitSort ==
    /\ ipam = Table(EmptyMap)
    /\ secondIpam = NilStore
    /\ pods = EmptyMap
    /\ pc = "idle"
    /\ last = NoCall
    /\ history = << >>
    /\ galaxy = NewGalaxy

NextSort ==
    \/ \E rows \in SeqsUpTo(SortRows, MaxRows), sort \in SortTokens : SortCall(rows, sort)
    \/ WriteHeaderAndEntity

SpecSort == InitSort /\ [][NextSort]_vars

Sorted == pc = "responded" /\ last.called

\* a <= b on strings.
StringLeq(a, b) == a = b \/ StringLess(a, b)

\* The record at place i of the result comes before or ties with the one at
\* place j in the order the token asks for, addresses ordered by their value.
InTokenOrder(i, j) ==
    LET t == ToLower(last.sort)
        a == last.out[i]
        b == last.out[j]
        va == last.rows[last.perm[i]].IP
        vb == last.rows[last.perm[j]].IP
    IN  CASE t = "namespace asc" -> StringLeq(Bytes(a.Namespace), Bytes(b.Namespace))
          [] t = "namespace desc" -> StringLeq(Bytes(b.Namespace), Bytes(a.Namespace))
          [] t \in {"podname", "podname asc"} ->
                 StringLeq(Bytes(a.PodName), Bytes(b.PodName))
          [] t = "podname desc" -> StringLeq(Bytes(b.PodName), Bytes(a.PodName))
          [] t \in {"policy", "policy asc"} -> a.Policy <= b.Policy
          [] t = "policy desc" -> a.Policy >= b.Policy
          [] t = "ip desc" -> va >= vb
          [] OTHER -> va <= vb

\* C17: the listing is ordered as the sort token says: by IP, Namespace,
\* PodName or Policy, ascending or descending; without a token or with an
\* unrecognized one by IP ascending; and IP order is the order of the 32-bit
\* address value, so that 10.0.0.2 precedes 10.0.0.10.
C17_OrderFollowsToken ==
    Sorted => \A i, j \in DOMAIN last.out : i < j => InTokenOrder(i, j)

\* The records at places i and j of the result compare equal under the token.
Tie(i, j) ==
    /\ ~sortFunc(last.sort, last.out[i], last.out[j])
    /\ ~sortFunc(last.sort, last.out[j], last.out[i])

\* C20: sorting is stable: records that compare equal on the sort field keep
\* the order the fan-out gave them.
C20_SortStable ==
    Sorted => \A i, j \in DOMAIN last.out :
                  (i < j /\ Tie(i, j)) => last.perm[i] < last.perm[j]

\* ------------------------------------------------------------ the key codec

\* The fields of valid keys: a marker, a namespace, an app, with or without a
\* pod and a pool.
CodecKeys ==
    [AppTypePrefix : {DeploymentPrefixKey, StatefulsetPrefixKey, TAppPrefixKey},
     Namespace : FillNamespaces \cup {"kube-system"}, AppName : {AppName, "db"},
     PodName : FillPodNames \cup {""}, PoolName : {"", "pool-a"}]

\* A key is encoded as the stores keep it and decoded as transform decodes it;
\* its marker is mapped to the app type transform shows and back as the
\* handlers read it.
CodecCall(k) ==
    /\ pc = "idle"
    /\ LET key == NewKeyObj(k.AppTypePrefix, k.Namespace, k.AppName, k.PodName,
                            k.PoolName).KeyInDB
       IN  last' = [called |-> TRUE, k |-> k, key |-> key, keyObj |-> ParseKey(key),
                    appType |-> toAppType(k.AppTypePrefix),
                    appTypePrefix |-> toAppTypePrefix(toAppType(k.AppTypePrefix))]
    /\ pc' = "responded"
    /\ UNCHANGED <<ipam, secondIpam, pods, history, galaxy>>

InitCodec ==
    /\ ipam = Table(EmptyMap)
    /\ secondIpam = NilStore
    /\ pods = EmptyMap
    /\ pc = "idle"
    /\ last = NoCall
    /\ history = << >>
    /\ galaxy = NewGalaxy

NextCodec ==
    \/ \E k \in CodecKeys : CodecCall(k)
    \/ WriteHeaderAndEntity

SpecCodec == InitCodec /\ [][NextCodec]_vars

BaseComponents == {"flannelGC", "bridgeNFCallIptables", "ipForward"}

\* Galaxy.Start: nothing is started when Init fails; setupIPtables failing
\* ends it after the first three; the policy manager and the ENI setup are
\* started when their options are set. Each gets the quit channel of now.
Start(initOk, iptablesOk, networkPolicy, routeENI) ==
    /\ ~galaxy.panicked
    /\ \A c \in galaxy.components : c[2] # galaxy.quitChan
    /\ LET started ==
               IF ~initOk THEN {}
               ELSE IF ~iptablesOk THEN BaseComponents
               ELSE BaseComponents \cup (IF networkPolicy THEN {"policy"} ELSE {})
                                   \cup (IF routeENI THEN {"eni"} ELSE {})
       IN  galaxy' = [galaxy EXCEPT !.components =
                          @ \cup {<<c, galaxy.quitChan>> : c \in started}]
    /\ UNCHANGED <<ipam, secondIpam, pods, pc, last, history>>

\* A Stop that leaves the quit channel in place.
MakeNothing(gx) == gx

\* g.quitChan = make(chan struct{}): a channel not seen before, open.
Make(gx) == [gx EXCEPT !.quitChan = gx.made, !.made = gx.made + 1]

\* Stop, caller t: the operand of close is read from g.quitChan.
StopLoad(t) ==
    /\ ~galaxy.panicked /\ galaxy.made < MaxChans
    /\ galaxy.stops[t].at = "idle"
    /\ galaxy' = [galaxy EXCEPT !.stops =
           [u \in StopCallers |->
               IF u = t
               THEN [at |-> "close", ch |-> galaxy.quitChan,
                     alone |-> \A v \in StopCallers \ {t} : galaxy.stops[v].at = "idle"]
               ELSE [galaxy.stops[u] EXCEPT !.alone = @ /\ galaxy.stops[u].at = "idle"]]]
    /\ UNCHANGED <<ipam, secondIpam, pods, pc, last, history>>

\* close(ch): closes an open channel; on a closed one the runtime panics and
\* the process ends.
StopClose(t) ==
    /\ ~galaxy.panicked
    /\ galaxy.stops[t].at = "close"
    /\ IF galaxy.stops[t].ch \in galaxy.closed
       THEN galaxy' = [galaxy EXCEPT !.panicked = TRUE,
                                     !.panicAlone = galaxy.stops[t].alone]
       ELSE galaxy' = [galaxy EXCEPT !.closed = @ \cup {galaxy.stops[t].ch},
                                     !.stops[t].at = "make"]
    /\ UNCHANGED <<ipam, secondIpam, pods, pc, last, history>>

\* The fresh channel is stored in g.quitChan and Stop returns nil.
StopMake(t) ==
    /\ ~galaxy.panicked
    /\ galaxy.stops[t].at = "make"
    /\ galaxy' = [Make(galaxy) EXCEPT !.stops[t].at = "idle"]
    /\ UNCHANGED <<ipam, secondIpam, pods, pc, last, history>>

InitStop ==
    /\ ipam = Table(EmptyMap)
    /\ secondIpam = NilStore
    /\ pods = EmptyMap
    /\ pc = "idle"
    /\ last = NoCall
    /\ history = << >>
    /\ galaxy = NewGalaxy

NextStop ==
    \/ \E initOk, iptablesOk, networkPolicy, routeENI \in BOOLEAN :
         Start(initOk, iptablesOk, networkPolicy, routeENI)
    \/ \E t \in StopCallers : StopLoad(t)
    \/ \E t \in StopCallers : StopClose(t)
    \/ \E t \in StopCallers : StopMake(t)

SpecStop == InitStop /\ [][NextStop]_vars

\* No Stop call is in progress.
NoStopRunning == \A t \in StopCallers : galaxy.stops[t].at = "idle"

\* C21: Stop closes the quit channel of the moment and installs a fresh open
\* one: a Stop call that runs with no other in progress, however many came
\* before it, never closes a closed channel, and between calls the quit
\* channel is open and new while every channel before it is closed, so every
\* component started with an old channel sees it closed. Two Stop calls that
\* overlap are not kept apart: a close of a closed channel comes only from
\* such a pair.
C21_StopSwapsChannel ==
    /\ galaxy.panicked => ~galaxy.panicAlone
    /\ \A t \in StopCallers :
         galaxy.stops[t].at = "make" => galaxy.stops[t].ch \in galaxy.closed
    /\ (NoStopRunning /\ ~galaxy.panicked) =>
          /\ galaxy.quitChan = galaxy.made - 1
          /\ galaxy.quitChan \notin galaxy.closed
          /\ galaxy.closed = 0..(galaxy.made - 2)
    /\ \A c \in galaxy.components :
         c[2] # galaxy.quitChan => c[2] \in galaxy.closed

\* Two Stop calls read the same quit channel, one with started components
\* listening on it; one closed it and the other's close hit it closed.
C21_Witness ==
    /\ galaxy.panicked
    /\ galaxy.stops[1].ch = galaxy.stops[2].ch
    /\ {galaxy.stops[1].at, galaxy.stops[2].at} = {"close", "make"}
    /\ \E c \in galaxy.components : c[2] = galaxy.stops[1].ch
    /\ galaxy.made >= 2

====
